---- MODULE Spec2Model ----
(***************************************************************************)
(* Model of the accuracy comparison of stdlib-numerical-demo:              *)
(* lib/compare.js, functions ulpDiff and runComparison, the command line   *)
(* run of index.js, lib/edge_cases.js and lib/ascii_plot.js, and the       *)
(* accuracy analysis, edge case table and buttons of web/app.js.           *)
(*                                                                         *)
(* Specifications:                                                         *)
(*   Spec      one call of runComparison with functions that return        *)
(*   SpecCalls successive calls of runComparison with functions that may   *)
(*             throw                                                       *)
(*   SpecUlp   ulpDiff applied to a pair of operands                       *)
(*   SpecEdge  populateEdgeCases                                           *)
(*   SpecLin      linspace of web/app.js                                   *)
(*   SpecWeb      runAccuracyAnalysis and drawUlpPlot of web/app.js        *)
(*   SpecCli      a node process started with index.js or a lib module     *)
(*   SpecOverflow runComparison with the overflow of the sum totalDiff     *)
(*   SpecUlpBoth  the ulpDiff of lib/compare.js and that of web/app.js     *)
(*   SpecBtn      the buttons of web/app.js and their timer callbacks      *)
(*   SpecLn       the range reduction of refLn of web/app.js               *)
(*   SpecPlot     plotFunction of lib/ascii_plot.js                        *)
(* The variables of the components a specification does not run keep       *)
(* their initial values.                                                   *)
(*                                                                         *)
(* A float64 is a record [k, v]:                                           *)
(*   k = "nan"            NaN                                              *)
(*   k = "inf",  v = 1/-1 +Infinity / -Infinity                            *)
(*   k = "zero", v = 1/-1 +0 / -0                                          *)
(*   k = "fin",  v = n    the finite nonzero value n                       *)
(* A ULP distance is a record [k, u] with k in "nan", "inf", "fin"; u is   *)
(* the exact distance in units of 1/(UlpUnit * FLOAT64_EPS), so that the   *)
(* division by |a| is exact.  The arithmetic on finite values is exact,    *)
(* except for the overflow of the sum totalDiff in SpecOverflow and for    *)
(* the rounding of large values in SpecPlot.                               *)
(***************************************************************************)
EXTENDS Integers, Sequences, FiniteSets, TLC

\* Longest sequence of test points.
MaxLen == 3

\* Largest magnitude of a finite function value.
MaxMag == 2

\* Number of rows of the edge case table (cases.length, 14 in the program).
NumCases == 2

\* The sample inputs a sequence of test points is drawn from (the float64
\* values 0.0 and 1.0).
Inputs == {0, 1}

VARIABLES
    stdlibFn,     \* the candidate function, Inputs -> float64
    nativeFn,     \* the reference function, Inputs -> float64
    testPoints,   \* the sequence of test points
    i,            \* number of test points processed by the loop
    nTotal,
    nAgree,
    totalDiff,
    maxUlpDiff,
    worstCase,
    pc,           \* "loop" while the for loop runs, "done" after the report,
                  \* "thrown" when an exception left runComparison
    report,       \* what runComparison printed
    prevOutcome,  \* how the previous call of runComparison ended
    opA,          \* ulpDiff: first operand
    opB,          \* ulpDiff: second operand
    ulpAB,        \* the value ulpDiff(opA, opB) returned
    ulpBA,        \* the value ulpDiff(opB, opA) returned
    upc,          \* "call" before the two calls of ulpDiff, "done" after
    ei,           \* populateEdgeCases: i, counted from 1
    ej,           \* populateEdgeCases: j, counted from 1
    isSpecial,
    rowCells,     \* the results written to the cells of the current row
    html,         \* the finished rows
    epc,          \* position in populateEdgeCases
    ulpWeb,       \* the value the ulpDiff of web/app.js returned
    linStart,     \* linspace of web/app.js: start, stop and n
    linStop,
    linN,
    linStep,      \* step, a quotient <<numerator, denominator>>
    linOut,       \* out, a sequence of quotients; a hole is "empty"
    linI,         \* i
    linPc,        \* position in linspace
    refFn,        \* runAccuracyAnalysis: data.ref, sample index -> float64
    webNativeFn,  \* data.native
    webN,         \* n, the number of sample points
    webI,         \* i
    webNAgree,    \* nAgree
    webNDiff,     \* nDiff
    webMaxUlp,    \* maxUlp
    webTotalUlp,  \* totalUlp
    ulps,         \* the points handed to drawUlpPlot
    webStats,     \* the texts of the four statistics
    drawn,        \* the markers drawUlpPlot drew, in order
    wpc,          \* position in runAccuracyAnalysis and drawUlpPlot
    entry,        \* the file node was started with
    cpc,          \* position in the run of the process
    printed,      \* the sections printed so far
    testsRun,     \* calls of testCase so far
    passLines,    \* PASS lines printed
    failLines,    \* FAIL lines printed
    exitCode,     \* exit code of the process, -1 while it runs
    btnDisabled,  \* button -> its disabled property
    btnLabel,     \* button -> its textContent
    btnTimers,    \* button -> number of its timer callbacks not yet run
    btnClicks,    \* button -> click events handled
    btnRuns,      \* button -> analyses run
    btnRunning,   \* the button whose timer callback is executing, or "none"
    lnX,          \* refLn: x, a quotient <<numerator, denominator>>
    lnM,          \* m, a quotient
    lnE,          \* e
    lnPc,         \* position in refLn
    plotY,        \* plotFunction: y, the sampled values
    ymin,
    ymax,
    grid,         \* the character grid, row -> column -> character
    plotI,        \* i
    plotRow,      \* row of the last grid write
    ppc           \* position in plotFunction

sweepVars == <<stdlibFn, nativeFn, testPoints, i, nTotal, nAgree, totalDiff,
               maxUlpDiff, worstCase, pc, report, prevOutcome>>

ulpVars == <<opA, opB, ulpAB, ulpBA, upc>>

edgeVars == <<ei, ej, isSpecial, rowCells, html, epc>>

linVars == <<linStart, linStop, linN, linStep, linOut, linI, linPc>>

webVars == <<refFn, webNativeFn, webN, webI, webNAgree, webNDiff, webMaxUlp,
             webTotalUlp, ulps, webStats, drawn, wpc>>

cliVars == <<entry, cpc, printed, testsRun, passLines, failLines, exitCode>>

btnVars == <<btnDisabled, btnLabel, btnTimers, btnClicks, btnRuns,
             btnRunning>>

lnVars == <<lnX, lnM, lnE, lnPc>>

plotVars == <<plotY, ymin, ymax, grid, plotI, plotRow, ppc>>

\* The components of the later sections of this module.
restVars == <<ulpWeb, linVars, webVars, cliVars, btnVars, lnVars, plotVars>>

vars == <<sweepVars, ulpVars, edgeVars, restVars>>

----------------------------------------------------------------------------
\* float64 values

NaN == [k |-> "nan", v |-> 0]
PINF == [k |-> "inf", v |-> 1]
NINF == [k |-> "inf", v |-> -1]
PZero == [k |-> "zero", v |-> 1]
NZero == [k |-> "zero", v |-> -1]
Fin(n) == [k |-> "fin", v |-> n]

FiniteNonzero == {Fin(n) : n \in 1..MaxMag}

Float64 == {NaN, PINF, NINF, PZero, NZero} \cup FiniteNonzero

\* The numeric value of a finite float64 (both zeros are 0).
Num(a) == IF a.k = "zero" THEN 0 ELSE a.v

isnan(x) == x.k = "nan"

isinfinite(x) == x.k = "inf"

abs(n) == IF n < 0 THEN -n ELSE n

\* a === b on numbers: NaN equals nothing, +0 equals -0.
StrictEq(a, b) ==
    /\ a.k # "nan"
    /\ b.k # "nan"
    /\ \/ a = b
       \/ a.k = "zero" /\ b.k = "zero"

----------------------------------------------------------------------------
\* ULP distances

RECURSIVE Gcd(_, _)
Gcd(m, n) == IF n = 0 THEN m ELSE Gcd(n, m % n)

RECURSIVE LcmUpTo(_)
LcmUpTo(n) == IF n <= 1 THEN 1 ELSE (LcmUpTo(n - 1) * n) \div Gcd(LcmUpTo(n - 1), n)

\* ULP distances are counted in units of 1/(UlpUnit * FLOAT64_EPS).
UlpUnit == LcmUpTo(MaxMag)

UlpNaN == [k |-> "nan", u |-> 0]
UlpInf == [k |-> "inf", u |-> 0]
UlpFin(n) == [k |-> "fin", u |-> n]

\* ulpDiff with the test for infinities made before the test a === b.
ulpDiffInfFirst(a, b) ==
    IF isinfinite(a) \/ isinfinite(b) THEN UlpInf
    ELSE IF StrictEq(a, b) THEN UlpFin(0)
    ELSE IF isnan(a) \/ isnan(b) THEN UlpNaN
    ELSE IF a.k = "zero" THEN UlpFin(2 * abs(Num(b)) * UlpUnit)
    ELSE UlpFin((abs(Num(a) - Num(b)) * UlpUnit) \div abs(Num(a)))

\* ulpDiff with the test for infinities made before the test for NaN.
ulpDiffInfBeforeNaN(a, b) ==
    IF StrictEq(a, b) THEN UlpFin(0)
    ELSE IF isinfinite(a) \/ isinfinite(b) THEN UlpInf
    ELSE IF isnan(a) \/ isnan(b) THEN UlpNaN
    ELSE IF a.k = "zero" THEN UlpFin(2 * abs(Num(b)) * UlpUnit)
    ELSE UlpFin((abs(Num(a) - Num(b)) * UlpUnit) \div abs(Num(a)))

\* ulpDiff without the branch for a === 0.0: the division by abs(a) * eps = 0
\* of a positive number gives Infinity.
ulpDiffNoZeroRule(a, b) ==
    IF StrictEq(a, b) THEN UlpFin(0)
    ELSE IF isnan(a) \/ isnan(b) THEN UlpNaN
    ELSE IF isinfinite(a) \/ isinfinite(b) THEN UlpInf
    ELSE IF a.k = "zero" THEN UlpInf
    ELSE UlpFin((abs(Num(a) - Num(b)) * UlpUnit) \div abs(Num(a)))

\* ulpDiff with the difference scaled by the second argument.
ulpDiffScaledByB(a, b) ==
    IF StrictEq(a, b) THEN UlpFin(0)
    ELSE IF isnan(a) \/ isnan(b) THEN UlpNaN
    ELSE IF isinfinite(a) \/ isinfinite(b) THEN UlpInf
    ELSE IF a.k = "zero" THEN UlpFin(2 * abs(Num(b)) * UlpUnit)
    ELSE IF b.k = "zero" THEN UlpInf
    ELSE UlpFin((abs(Num(a) - Num(b)) * UlpUnit) \div abs(Num(b)))

\* ulpDiff with a first test that also holds of NaN against NaN.
ulpDiffSameValue(a, b) ==
    IF StrictEq(a, b) \/ (isnan(a) /\ isnan(b)) THEN UlpFin(0)
    ELSE IF isnan(a) \/ isnan(b) THEN UlpNaN
    ELSE IF isinfinite(a) \/ isinfinite(b) THEN UlpInf
    ELSE IF a.k = "zero" THEN UlpFin(2 * abs(Num(b)) * UlpUnit)
    ELSE UlpFin((abs(Num(a) - Num(b)) * UlpUnit) \div abs(Num(a)))

\* ulpDiff with the NaN test made on the first argument only.
ulpDiffNaNFirstOnly(a, b) ==
    IF StrictEq(a, b) THEN UlpFin(0)
    ELSE IF isnan(a) THEN UlpNaN
    ELSE IF isinfinite(a) \/ isinfinite(b) THEN UlpInf
    ELSE IF isnan(b) THEN UlpNaN
    ELSE IF a.k = "zero" THEN UlpFin(2 * abs(Num(b)) * UlpUnit)
    ELSE UlpFin((abs(Num(a) - Num(b)) * UlpUnit) \div abs(Num(a)))

ulpDiff(a, b) ==
    IF StrictEq(a, b) THEN UlpFin(0)
    ELSE IF isnan(a) \/ isnan(b) THEN UlpNaN
    ELSE IF isinfinite(a) \/ isinfinite(b) THEN UlpInf
    ELSE IF a.k = "zero" THEN UlpFin(2 * abs(Num(b)) * UlpUnit)
    ELSE UlpFin((abs(Num(a) - Num(b)) * UlpUnit) \div abs(Num(a)))

----------------------------------------------------------------------------
\* Printed numbers

\* A printed number is [k, n, d]: "nan" prints NaN, "inf" prints Infinity,
\* "fin" prints the value n/d.
NotPrinted == [k |-> "none", n |-> 0, d |-> 1]

\* The float64 quotient n / m of two non-negative numbers: 0/0 is NaN and
\* n/0 is Infinity for n > 0.
JsDiv(n, m) ==
    IF m = 0
    THEN IF n = 0 THEN [k |-> "nan", n |-> 0, d |-> 1]
                  ELSE [k |-> "inf", n |-> 0, d |-> 1]
    ELSE [k |-> "fin", n |-> n, d |-> m]

\* Number.prototype.toFixed(1): NaN and Infinity print as such, a finite
\* value is rounded to tenths.
toFixed1(q) ==
    IF q.k = "fin"
    THEN [k |-> "fin", n |-> (20 * q.n + q.d) \div (2 * q.d), d |-> 10]
    ELSE q

\* The ULP figures of the report are recorded as the numbers handed to
\* toFixed(2) and toFixed(4), which print NaN and Infinity as such.

----------------------------------------------------------------------------
\* runComparison

\* Skipped with the skip of equal infinities left out.
SkippedNaNOnly(sv, nv) == isnan(sv) /\ isnan(nv)

\* Skipped with the skip of NaN pairs left out.
SkippedInfOnly(sv, nv) == isinfinite(sv) /\ isinfinite(nv) /\ StrictEq(sv, nv)

\* Skipped without the inner comparison of the two infinities.
SkippedAnyInfinities(sv, nv) ==
    \/ isnan(sv) /\ isnan(nv)
    \/ isinfinite(sv) /\ isinfinite(nv)

\* The "continue" of lines 84-91: both NaN, or both infinite and equal.
Skipped(sv, nv) ==
    \/ isnan(sv) /\ isnan(nv)
    \/ isinfinite(sv) /\ isinfinite(nv) /\ StrictEq(sv, nv)

\* The sample reaches "nTotal += 1".
Counted(sv, nv) == ~Skipped(sv, nv)

\* Agreed with NaN pairs counted as agreements before they are skipped.
AgreedAlsoNaN(sv, nv) ==
    \/ isnan(sv) /\ isnan(nv)
    \/ Counted(sv, nv) /\ StrictEq(sv, nv)

\* Agreed with the comparison made before the skip of equal infinities.
AgreedAnyEqual(sv, nv) == StrictEq(sv, nv)

\* Agreed with a comparison that tells +0 from -0.
AgreedBitIdentical(sv, nv) == Counted(sv, nv) /\ sv.k # "nan" /\ sv = nv

\* The sample reaches "nAgree += 1".
Agreed(sv, nv) == Counted(sv, nv) /\ StrictEq(sv, nv)

\* The sample reaches "diff = ulpDiff(stdlibVal, nativeVal)".
Diverged(sv, nv) == Counted(sv, nv) /\ ~StrictEq(sv, nv)

\* Accumulated with the addition moved inside the test of line 103.
AccumulatedOnlyNewMax(sv, nv) ==
    /\ Diverged(sv, nv)
    /\ ~isnan(ulpDiff(sv, nv))
    /\ ~isinfinite(ulpDiff(sv, nv))
    /\ ulpDiff(sv, nv).u > maxUlpDiff

\* The guard of line 101 on the computed diff.
Accumulated(sv, nv) ==
    /\ Diverged(sv, nv)
    /\ ~isnan(ulpDiff(sv, nv))
    /\ ~isinfinite(ulpDiff(sv, nv))

\* NewMax with >= in place of >.
NewMaxOrEqual(sv, nv) == Accumulated(sv, nv) /\ ulpDiff(sv, nv).u >= maxUlpDiff

\* The guard of line 103.
NewMax(sv, nv) == Accumulated(sv, nv) /\ ulpDiff(sv, nv).u > maxUlpDiff

\* The locals of runComparison on entry, and nothing printed yet.
Entered ==
    /\ i = 0
    /\ maxUlpDiff = 0
    /\ totalDiff = 0
    /\ worstCase = 0
    /\ nAgree = 0
    /\ nTotal = 0
    /\ pc = "loop"
    /\ report = [pointsTested |-> 0, nAgree |-> 0, nTotal |-> 0,
                 pct |-> NotPrinted, branch |-> "none", detail |-> <<>>]

\* ulpDiff is not being called.
UlpIdle ==
    /\ opA = NaN
    /\ opB = NaN
    /\ ulpAB = UlpNaN
    /\ ulpBA = UlpNaN
    /\ upc = "idle"

\* populateEdgeCases is not being called.
EdgeIdle ==
    /\ ei = 0
    /\ ej = 0
    /\ isSpecial = FALSE
    /\ rowCells = <<>>
    /\ html = <<>>
    /\ epc = "idle"

\* No call of runComparison is made.
SweepIdle ==
    /\ stdlibFn = [x \in Inputs |-> NaN]
    /\ nativeFn = [x \in Inputs |-> NaN]
    /\ testPoints = <<>>
    /\ prevOutcome = "none"
    /\ Entered

\* The ulpDiff of web/app.js is not being called.
WebUlpIdle == ulpWeb = UlpNaN

\* linspace is not being called.
LinIdle ==
    /\ linStart = 0
    /\ linStop = 0
    /\ linN = 0
    /\ linStep = <<0, 1>>
    /\ linOut = <<>>
    /\ linI = 0
    /\ linPc = "idle"

\* runAccuracyAnalysis is not being called.
WebIdle ==
    /\ refFn = <<>>
    /\ webNativeFn = <<>>
    /\ webN = 0
    /\ webI = 0
    /\ webNAgree = 0
    /\ webNDiff = 0
    /\ webMaxUlp = 0
    /\ webTotalUlp = 0
    /\ ulps = <<>>
    /\ webStats = <<>>
    /\ drawn = <<>>
    /\ wpc = "idle"

\* No node process runs.
CliIdle ==
    /\ entry = "none"
    /\ cpc = "idle"
    /\ printed = <<>>
    /\ testsRun = 0
    /\ passLines = 0
    /\ failLines = 0
    /\ exitCode = -1

\* The page is not loaded.
BtnIdle ==
    /\ btnDisabled = <<>>
    /\ btnLabel = <<>>
    /\ btnTimers = <<>>
    /\ btnClicks = <<>>
    /\ btnRuns = <<>>
    /\ btnRunning = "none"

\* refLn is not being called.
LnIdle ==
    /\ lnX = <<0, 1>>
    /\ lnM = <<0, 1>>
    /\ lnE = 0
    /\ lnPc = "idle"

\* plotFunction is not being called.
PlotIdle ==
    /\ plotY = <<>>
    /\ ymin = NaN
    /\ ymax = NaN
    /\ grid = <<>>
    /\ plotI = 0
    /\ plotRow = Fin(0)
    /\ ppc = "idle"

\* None of the components of the later sections runs.
RestIdle ==
    /\ WebUlpIdle
    /\ LinIdle
    /\ WebIdle
    /\ CliIdle
    /\ BtnIdle
    /\ LnIdle
    /\ PlotIdle

Init ==
    /\ stdlibFn \in [Inputs -> Float64]
    /\ nativeFn \in [Inputs -> Float64]
    /\ prevOutcome = "none"
    /\ UlpIdle
    /\ EdgeIdle
    /\ RestIdle
    /\ testPoints \in UNION {[1..n -> Inputs] : n \in 0..MaxLen}
    /\ i = 0
    /\ maxUlpDiff = 0
    /\ totalDiff = 0
    /\ worstCase = 0
    /\ nAgree = 0
    /\ nTotal = 0
    /\ pc = "loop"
    /\ report = [pointsTested |-> 0, nAgree |-> 0, nTotal |-> 0,
                 pct |-> NotPrinted, branch |-> "none", detail |-> <<>>]

\* One iteration of the for loop.
Step ==
    /\ pc = "loop"
    /\ i < Len(testPoints)
    /\ LET x == testPoints[i + 1]
           stdlibVal == stdlibFn[x]
           nativeVal == nativeFn[x]
       IN /\ nTotal' = IF Counted(stdlibVal, nativeVal) THEN nTotal + 1 ELSE nTotal
          /\ nAgree' = IF Agreed(stdlibVal, nativeVal) THEN nAgree + 1 ELSE nAgree
          /\ totalDiff' = IF Accumulated(stdlibVal, nativeVal)
                          THEN totalDiff + ulpDiff(stdlibVal, nativeVal).u
                          ELSE totalDiff
          /\ maxUlpDiff' = IF NewMax(stdlibVal, nativeVal)
                           THEN ulpDiff(stdlibVal, nativeVal).u
                           ELSE maxUlpDiff
          /\ worstCase' = IF NewMax(stdlibVal, nativeVal) THEN x ELSE worstCase
    /\ i' = i + 1
    /\ UNCHANGED <<stdlibFn, nativeFn, testPoints, pc, report, prevOutcome>>
    /\ UNCHANGED <<ulpVars, edgeVars, restVars>>

\* The branch of line 114.
NumericBranch == maxUlpDiff > 0

\* The lines printed after the loop.
Report ==
    /\ pc = "loop"
    /\ i = Len(testPoints)
    /\ report' =
         [pointsTested |-> Len(testPoints),
          nAgree |-> nAgree,
          nTotal |-> nTotal,
          pct |-> toFixed1(JsDiv(100 * nAgree, nTotal)),
          branch |-> IF NumericBranch THEN "numeric" ELSE "perfect",
          detail |-> IF NumericBranch
                     THEN [maxUlp |-> JsDiv(maxUlpDiff, 1),
                           avgUlp |-> JsDiv(totalDiff, nTotal - nAgree),
                           worst |-> worstCase,
                           stdlibAtWorst |-> stdlibFn[worstCase],
                           nativeAtWorst |-> nativeFn[worstCase]]
                     ELSE <<>>]
    /\ pc' = "done"
    /\ UNCHANGED <<stdlibFn, nativeFn, testPoints, i, nTotal, nAgree,
                   totalDiff, maxUlpDiff, worstCase, prevOutcome>>
    /\ UNCHANGED <<ulpVars, edgeVars, restVars>>

Next == Step \/ Report

Spec == Init /\ [][Next]_vars

----------------------------------------------------------------------------
\* Successive calls of runComparison, with functions that may throw

\* The outcome of a call of stdlibFn or nativeFn that throws.
Thrown == [k |-> "thrown", v |-> 0]

\* What a function of SpecCalls does on an input.
CallValues == {Thrown, NaN, PINF} \cup FiniteNonzero

\* stdlibFn(x) or nativeFn(x) throws (lines 80-81).
Throws(x) == stdlibFn[x] = Thrown \/ nativeFn[x] = Thrown

InitCalls ==
    /\ stdlibFn \in [Inputs -> CallValues]
    /\ nativeFn \in [Inputs -> CallValues]
    /\ testPoints \in UNION {[1..n -> Inputs] : n \in 0..MaxLen}
    /\ prevOutcome = "none"
    /\ Entered
    /\ UlpIdle
    /\ EdgeIdle
    /\ RestIdle

\* An iteration of the for loop in which both functions return.
Sample ==
    /\ pc = "loop"
    /\ i < Len(testPoints)
    /\ ~Throws(testPoints[i + 1])
    /\ Step

\* Throw with the exception caught and the sample passed over.
ThrowSwallowed ==
    /\ pc = "loop"
    /\ i < Len(testPoints)
    /\ Throws(testPoints[i + 1])
    /\ i' = i + 1
    /\ UNCHANGED <<stdlibFn, nativeFn, testPoints, nTotal, nAgree, totalDiff,
                   maxUlpDiff, worstCase, pc, report, prevOutcome>>
    /\ UNCHANGED <<ulpVars, edgeVars, restVars>>

\* An iteration of the for loop in which stdlibFn or nativeFn throws: nothing
\* in runComparison catches, the exception leaves the function.
Throw ==
    /\ pc = "loop"
    /\ i < Len(testPoints)
    /\ Throws(testPoints[i + 1])
    /\ pc' = "thrown"
    /\ UNCHANGED <<stdlibFn, nativeFn, testPoints, i, nTotal, nAgree, totalDiff,
                   maxUlpDiff, worstCase, report, prevOutcome>>
    /\ UNCHANGED <<ulpVars, edgeVars, restVars>>

\* EntryMaxUlpDiff if maxUlpDiff were kept from one call to the next.
EntryMaxUlpDiffKept == maxUlpDiff

\* The value line 73 gives maxUlpDiff on entry.
EntryMaxUlpDiff == 0

\* The caller makes another call of runComparison, with new test points and
\* the same two functions, in the same or in exchanged roles.
Call ==
    /\ pc \in {"done", "thrown"}
    /\ prevOutcome' = pc
    /\ testPoints' \in UNION {[1..n -> Inputs] : n \in 0..MaxLen}
    /\ \E exchanged \in BOOLEAN :
          /\ stdlibFn' = IF exchanged THEN nativeFn ELSE stdlibFn
          /\ nativeFn' = IF exchanged THEN stdlibFn ELSE nativeFn
    /\ i' = 0
    /\ maxUlpDiff' = EntryMaxUlpDiff
    /\ totalDiff' = 0
    /\ worstCase' = 0
    /\ nAgree' = 0
    /\ nTotal' = 0
    /\ pc' = "loop"
    /\ report' = [pointsTested |-> 0, nAgree |-> 0, nTotal |-> 0,
                  pct |-> NotPrinted, branch |-> "none", detail |-> <<>>]
    /\ UNCHANGED <<ulpVars, edgeVars, restVars>>

NextCalls == Sample \/ Throw \/ Report \/ Call

SpecCalls == InitCalls /\ [][NextCalls]_vars

----------------------------------------------------------------------------
\* ulpDiff applied to a pair of operands

\* The operands: NaN, both infinities, both zeros and the finite nonzero
\* values of either sign.
UlpOperands ==
    {NaN, PINF, NINF, PZero, NZero}
        \cup {Fin(n) : n \in 1..MaxMag} \cup {Fin(-n) : n \in 1..MaxMag}

InitUlp ==
    /\ opA \in UlpOperands
    /\ opB \in UlpOperands
    /\ ulpAB = UlpNaN
    /\ ulpBA = UlpNaN
    /\ upc = "call"
    /\ SweepIdle
    /\ EdgeIdle
    /\ RestIdle

\* ulpDiff is called on the operands, in both orders.
CallUlpDiff ==
    /\ upc = "call"
    /\ ulpAB' = ulpDiff(opA, opB)
    /\ ulpBA' = ulpDiff(opB, opA)
    /\ upc' = "done"
    /\ UNCHANGED <<opA, opB>>
    /\ UNCHANGED <<sweepVars, edgeVars, restVars>>

NextUlp == CallUlpDiff

SpecUlp == InitUlp /\ [][NextUlp]_vars

----------------------------------------------------------------------------
\* populateEdgeCases

\* The columns of the table: two of the four entries of fns.
EdgeFns == <<"ln", "sqrt">>

\* What fns[j].fn(cases[i].input) can return.
EdgeResults == {NaN, PINF, NINF, PZero, NZero, Fin(1)}

\* formatNum, on the values of EdgeResults (a finite value between 1e-4 and
\* 1e6 in magnitude is printed by toPrecision(6)).
formatNum(x) ==
    IF isnan(x) THEN "NaN"
    ELSE IF x = PINF THEN "+inf"
    ELSE IF x = NINF THEN "-inf"
    ELSE IF x = NZero THEN "-0"
    ELSE IF x.k = "zero" THEN "0.00000"
    ELSE ToString(x.v) \o ".00000"

\* The test of line 1012.
SpecialResult(result) ==
    isnan(result) \/ isinfinite(result) \/ StrictEq(result, PZero)

\* RowStartFlag with the flag of the previous row kept.
RowStartFlagKept == isSpecial

\* The value line 1007 gives isSpecial at the start of a row.
RowStartFlag == FALSE

InitEdge ==
    /\ ei = 1
    /\ ej = 1
    /\ isSpecial = FALSE
    /\ rowCells = <<>>
    /\ html = <<>>
    /\ epc = "row"
    /\ SweepIdle
    /\ UlpIdle
    /\ RestIdle

\* Lines 1006-1009: a row is opened.
EdgeRowStart ==
    /\ epc = "row"
    /\ ei <= NumCases
    /\ isSpecial' = RowStartFlag
    /\ rowCells' = <<>>
    /\ ej' = 1
    /\ epc' = "cell"
    /\ UNCHANGED <<ei, html>>
    /\ UNCHANGED <<sweepVars, ulpVars, restVars>>

\* Lines 1010-1016: one function is applied to the input of the row.
EdgeCell ==
    /\ epc = "cell"
    /\ ej <= Len(EdgeFns)
    /\ \E result \in EdgeResults :
          /\ isSpecial' = IF SpecialResult(result) THEN TRUE ELSE isSpecial
          /\ rowCells' = Append(rowCells, [fn |-> EdgeFns[ej],
                                           result |-> result,
                                           text |-> formatNum(result)])
    /\ ej' = ej + 1
    /\ UNCHANGED <<ei, html, epc>>
    /\ UNCHANGED <<sweepVars, ulpVars, restVars>>

\* Lines 1017-1019: the status cell closes the row.
EdgeRowEnd ==
    /\ epc = "cell"
    /\ ej > Len(EdgeFns)
    /\ html' = Append(html, [cells |-> rowCells,
                             status |-> IF isSpecial THEN "Special" ELSE "Normal"])
    /\ ei' = ei + 1
    /\ epc' = "row"
    /\ UNCHANGED <<ej, isSpecial, rowCells>>
    /\ UNCHANGED <<sweepVars, ulpVars, restVars>>

\* Line 1021: the table is shown.
EdgeDone ==
    /\ epc = "row"
    /\ ei > NumCases
    /\ epc' = "done"
    /\ UNCHANGED <<ei, ej, isSpecial, rowCells, html>>
    /\ UNCHANGED <<sweepVars, ulpVars, restVars>>

NextEdge == EdgeRowStart \/ EdgeCell \/ EdgeRowEnd \/ EdgeDone

SpecEdge == InitEdge /\ [][NextEdge]_vars

----------------------------------------------------------------------------
\* Vocabulary of the properties

\* The values the two functions return on the j-th test point.
cvAt(j) == stdlibFn[testPoints[j]]
rvAt(j) == nativeFn[testPoints[j]]

BothNaN(cv, rv) == cv.k = "nan" /\ rv.k = "nan"
EqualInfinities(cv, rv) == cv.k = "inf" /\ rv.k = "inf" /\ cv.v = rv.v
OppositeInfinities(cv, rv) == cv.k = "inf" /\ rv.k = "inf" /\ cv.v # rv.v

\* The loop is about to process a test point.
AtSample == pc = "loop" /\ i < Len(testPoints)

\* The values of the sample the loop is about to process.
cvNow == stdlibFn[testPoints[i + 1]]
rvNow == nativeFn[testPoints[i + 1]]

Processed == 1..i

\* The samples whose ULP distance is finite and was computed by the loop.
Scored(j) ==
    /\ ~BothNaN(cvAt(j), rvAt(j))
    /\ ~StrictEq(cvAt(j), rvAt(j))
    /\ ulpDiff(cvAt(j), rvAt(j)).k = "fin"

----------------------------------------------------------------------------
\* C1 as stated: comparing a function against itself over a non-empty
\* sequence ends with exactAgreements = totalComparable = pointsTested and
\* maxUlpDifference = 0, whatever the function returns.
C1_SelfComparisonCountsAll ==
    (pc = "done" /\ stdlibFn = nativeFn /\ Len(testPoints) > 0) =>
        /\ report.nAgree = report.nTotal
        /\ report.nTotal = report.pointsTested
        /\ maxUlpDiff = 0

\* C1 amended: comparing a function against itself over a non-empty sequence
\* ends with exactAgreements = totalComparable = the number of test points on
\* which the function returns neither NaN nor an infinity, maxUlpDifference = 0
\* and the perfect-agreement line; pointsTested is the length of the sequence.
C1_SelfComparison ==
    (pc = "done" /\ stdlibFn = nativeFn /\ Len(testPoints) > 0) =>
        /\ report.nAgree = report.nTotal
        /\ report.nTotal =
             Cardinality({j \in 1..Len(testPoints) :
                             cvAt(j).k # "nan" /\ cvAt(j).k # "inf"})
        /\ report.pointsTested = Len(testPoints)
        /\ maxUlpDiff = 0
        /\ report.branch = "perfect"

C1_Witness ==
    /\ pc = "done"
    /\ stdlibFn = nativeFn
    /\ Len(testPoints) = 3
    /\ \E j \in 1..3 : cvAt(j).k = "nan"
    /\ \E j \in 1..3 : cvAt(j).k = "fin"
    /\ report.nTotal < report.pointsTested
    /\ report.nAgree > 0

\* C2: in every state of a sweep, exactAgreements <= totalComparable <= the
\* number of samples processed so far, and maxUlpDifference >= 0.
C2_CountersOrdered ==
    /\ nAgree <= nTotal
    /\ nTotal <= i
    /\ maxUlpDiff >= 0

C2_Witness ==
    /\ AtSample
    /\ 0 < nAgree
    /\ nAgree < nTotal
    /\ nTotal <= i
    /\ maxUlpDiff > 0

\* C3: a sample on which both functions return NaN leaves totalComparable,
\* exactAgreements, the ULP sum, the maximum and the worst-case input
\* unchanged, and the reported point count is the length of the input
\* sequence whatever the samples were.
C3_BothNaNSkipped ==
    [][/\ (AtSample /\ BothNaN(cvNow, rvNow)) =>
            /\ nTotal' = nTotal
            /\ nAgree' = nAgree
            /\ totalDiff' = totalDiff
            /\ maxUlpDiff' = maxUlpDiff
            /\ worstCase' = worstCase
            /\ i' = i + 1
       /\ pc' = "done" => report'.pointsTested = Len(testPoints)]_vars

C3_Witness ==
    /\ pc = "done"
    /\ report.pointsTested = 3
    /\ BothNaN(cvAt(3), rvAt(3))
    /\ nTotal = 2
    /\ maxUlpDiff > 0
    /\ worstCase # testPoints[3]

\* C4: a sample on which both functions return the same infinity changes
\* none of nTotal, nAgree, the sum and the maximum; a sample on which they
\* return infinities of opposite sign is counted in nTotal and is not an
\* agreement.
C4_Infinities ==
    [][/\ (AtSample /\ EqualInfinities(cvNow, rvNow)) =>
            /\ nTotal' = nTotal
            /\ nAgree' = nAgree
            /\ totalDiff' = totalDiff
            /\ maxUlpDiff' = maxUlpDiff
       /\ (AtSample /\ OppositeInfinities(cvNow, rvNow)) =>
            /\ nTotal' = nTotal + 1
            /\ nAgree' = nAgree]_vars

C4_Witness ==
    /\ i = 2
    /\ EqualInfinities(cvAt(1), rvAt(1))
    /\ OppositeInfinities(cvAt(2), rvAt(2))
    /\ nTotal = 1
    /\ nAgree = 0

\* C5 as stated: after a sweep exactAgreements is the number of samples with
\* cv === rv plus the number of samples on which both values are NaN.
C5_AgreementsIncludeNaN ==
    pc = "done" =>
        report.nAgree =
            Cardinality({j \in 1..Len(testPoints) : StrictEq(cvAt(j), rvAt(j))})
            + Cardinality({j \in 1..Len(testPoints) : BothNaN(cvAt(j), rvAt(j))})

\* C5 amended: after a sweep of runComparison exactAgreements is the number
\* of samples with cv === rv that are not a pair of equal infinities; the
\* samples on which both values are NaN are not counted.
C5_Agreements ==
    pc = "done" =>
        report.nAgree =
            Cardinality({j \in 1..Len(testPoints) :
                            /\ StrictEq(cvAt(j), rvAt(j))
                            /\ ~EqualInfinities(cvAt(j), rvAt(j))})

C5_Witness ==
    /\ pc = "done"
    /\ Len(testPoints) = 3
    /\ \E j \in 1..3 : BothNaN(cvAt(j), rvAt(j))
    /\ \E j \in 1..3 : cvAt(j).k = "fin" /\ cvAt(j) = rvAt(j)
    /\ report.nAgree \in 1..2

\* C6: a sample with cv === rv that is not a pair of equal infinities (equal
\* finite values, +0 against -0 in either order) increments exactAgreements
\* and totalComparable by one and leaves the sum, the maximum and the
\* worst-case input unchanged.
C6_EqualSample ==
    [][(AtSample /\ StrictEq(cvNow, rvNow) /\ ~EqualInfinities(cvNow, rvNow)) =>
            /\ nAgree' = nAgree + 1
            /\ nTotal' = nTotal + 1
            /\ totalDiff' = totalDiff
            /\ maxUlpDiff' = maxUlpDiff
            /\ worstCase' = worstCase]_vars

C6_Witness ==
    /\ i = 3
    /\ cvAt(3) = PZero
    /\ rvAt(3) = NZero
    /\ nAgree = 1
    /\ nTotal = 3
    /\ maxUlpDiff > 0
    /\ worstCase # testPoints[3]

\* C7: a sample that is neither both-NaN, nor equal infinities, nor cv === rv
\* increments totalComparable and not exactAgreements; with d = ulpDiff(cv, rv),
\* a finite d is added to the sum and, when it exceeds the maximum, becomes the
\* maximum with the sample's x as worst case (and otherwise changes neither);
\* a NaN or infinite d changes none of the sum, the maximum and the worst case.
C7_DivergentSample ==
    [][(/\ AtSample
        /\ ~BothNaN(cvNow, rvNow)
        /\ ~EqualInfinities(cvNow, rvNow)
        /\ ~StrictEq(cvNow, rvNow)) =>
            LET d == ulpDiff(cvNow, rvNow)
            IN /\ nTotal' = nTotal + 1
               /\ nAgree' = nAgree
               /\ d.k = "fin" => totalDiff' = totalDiff + d.u
               /\ (d.k = "fin" /\ d.u > maxUlpDiff) =>
                      maxUlpDiff' = d.u /\ worstCase' = testPoints[i + 1]
               /\ (d.k = "fin" /\ d.u <= maxUlpDiff) =>
                      maxUlpDiff' = maxUlpDiff /\ worstCase' = worstCase
               /\ d.k # "fin" =>
                      /\ totalDiff' = totalDiff
                      /\ maxUlpDiff' = maxUlpDiff
                      /\ worstCase' = worstCase]_vars

C7_Witness ==
    /\ i = 3
    /\ ulpDiff(cvAt(1), rvAt(1)).k = "fin"
    /\ ulpDiff(cvAt(1), rvAt(1)).u > 0
    /\ ulpDiff(cvAt(2), rvAt(2)).k \in {"nan", "inf"}
    /\ ~BothNaN(cvAt(2), rvAt(2))
    /\ testPoints[3] = testPoints[1]
    /\ nTotal = 3
    /\ nAgree = 0
    /\ totalDiff = 2 * maxUlpDiff
    /\ worstCase = testPoints[1]
    /\ worstCase # testPoints[2]

\* C8: the report shows the numeric average exactly when
\* totalComparable - exactAgreements > 0 and the perfect-agreement line
\* exactly when totalComparable = exactAgreements.
C8_AverageWhenDivergent ==
    pc = "done" =>
        /\ report.branch = "numeric" <=> report.nTotal - report.nAgree > 0
        /\ report.branch = "perfect" <=> report.nTotal = report.nAgree
        /\ report.branch = "numeric" =>
               report.detail.avgUlp =
                   [k |-> "fin", n |-> totalDiff, d |-> report.nTotal - report.nAgree]

\* C9: no statistic printed by the report of a sweep over a non-empty
\* sequence is NaN or Infinity.
C9_NoNaNInReport ==
    (pc = "done" /\ Len(testPoints) > 0) =>
        /\ report.pct.k = "fin"
        /\ report.branch = "numeric" =>
               /\ report.detail.maxUlp.k = "fin"
               /\ report.detail.avgUlp.k = "fin"

\* C10: after a sweep with maxUlpDifference > 0 the reported worst-case input
\* is a test point whose finite ULP distance is the maximum, the first such
\* test point in input order, and no finite distance of the sweep is larger.
C10_WorstCaseFirstMax ==
    (pc = "done" /\ maxUlpDiff > 0) =>
        /\ report.branch = "numeric"
        /\ report.detail.worst = worstCase
        /\ \E j \in 1..Len(testPoints) :
              /\ testPoints[j] = worstCase
              /\ Scored(j)
              /\ ulpDiff(cvAt(j), rvAt(j)).u = maxUlpDiff
              /\ \A h \in 1..(j - 1) :
                    Scored(h) => ulpDiff(cvAt(h), rvAt(h)).u < maxUlpDiff
        /\ \A j \in 1..Len(testPoints) :
              Scored(j) => ulpDiff(cvAt(j), rvAt(j)).u <= maxUlpDiff

C10_Witness ==
    /\ pc = "done"
    /\ maxUlpDiff > 0
    /\ Len(testPoints) = 3
    /\ testPoints[1] # testPoints[2]
    /\ testPoints[3] = testPoints[2]
    /\ Scored(1)
    /\ Scored(2)
    /\ cvAt(1) # cvAt(2)
    /\ ulpDiff(cvAt(1), rvAt(1)).u = maxUlpDiff
    /\ ulpDiff(cvAt(2), rvAt(2)).u = maxUlpDiff
    /\ report.detail.worst = testPoints[1]

----------------------------------------------------------------------------
\* Properties of SpecCalls

\* The loop is about to evaluate a function that throws.
AtThrow == AtSample /\ Throws(testPoints[i + 1])

\* C11 as stated: a call of runComparison with no test point raises an error
\* to its caller and prints no report.
C11_EmptyIsError ==
    (Len(testPoints) = 0 /\ pc # "loop") =>
        /\ pc = "thrown"
        /\ report.branch = "none"

\* C12: when stdlibFn or nativeFn throws on a test point the exception leaves
\* runComparison at once: the sample is not passed over, no later test point
\* is evaluated, no accumulator changes and no report is printed for the call.
C12_ThrowPropagates ==
    [][/\ AtThrow =>
            /\ pc' = "thrown"
            /\ i' = i
            /\ report'.branch = "none"
            /\ <<nTotal, nAgree, totalDiff, maxUlpDiff, worstCase>>' =
                   <<nTotal, nAgree, totalDiff, maxUlpDiff, worstCase>>
       /\ pc = "thrown" =>
            /\ report.branch = "none"
            /\ i' = 0
            /\ pc' = "loop"
            /\ prevOutcome' = "thrown"]_vars

C12_Witness ==
    /\ pc = "thrown"
    /\ i = 1
    /\ Len(testPoints) = 3
    /\ ~Throws(testPoints[1])
    /\ Throws(testPoints[2])
    /\ ~Throws(testPoints[3])
    /\ nTotal = 1
    /\ report.branch = "none"

\* The accumulators a call of runComparison that shares nothing with earlier
\* calls holds after the test points tp: <<nTotal, nAgree, totalDiff,
\* maxUlpDiff, worstCase>>.
RECURSIVE FreshSweep(_, _, _)
FreshSweep(f, g, tp) ==
    IF tp = <<>> THEN <<0, 0, 0, 0, 0>>
    ELSE LET acc == FreshSweep(f, g, SubSeq(tp, 1, Len(tp) - 1))
             x == tp[Len(tp)]
             cv == f[x]
             rv == g[x]
             skip == BothNaN(cv, rv) \/ EqualInfinities(cv, rv)
             d == ulpDiff(cv, rv)
             scored == ~skip /\ ~StrictEq(cv, rv) /\ d.k = "fin"
         IN <<IF skip THEN acc[1] ELSE acc[1] + 1,
              IF ~skip /\ StrictEq(cv, rv) THEN acc[2] + 1 ELSE acc[2],
              IF scored THEN acc[3] + d.u ELSE acc[3],
              IF scored /\ d.u > acc[4] THEN d.u ELSE acc[4],
              IF scored /\ d.u > acc[4] THEN x ELSE acc[5]>>

\* C13: whatever calls of runComparison came before, and however they ended,
\* a call computes the counts, the ULP sum, the maximum and the worst-case
\* input that its own functions and test points determine.
C13_NoSharedState ==
    /\ pc \in {"done", "thrown"} =>
          <<nTotal, nAgree, totalDiff, maxUlpDiff, worstCase>> =
              FreshSweep(stdlibFn, nativeFn, SubSeq(testPoints, 1, i))
    /\ pc = "done" =>
          /\ i = Len(testPoints)
          /\ report.nTotal = nTotal
          /\ report.nAgree = nAgree
          /\ report.pointsTested = Len(testPoints)

C13_Witness ==
    /\ pc = "done"
    /\ prevOutcome = "thrown"
    /\ Len(testPoints) = 3
    /\ nTotal = 3
    /\ nAgree = 0
    /\ maxUlpDiff > 0
    /\ totalDiff = 3 * maxUlpDiff
    /\ \E x \in Inputs : Throws(x)

----------------------------------------------------------------------------
\* Properties of SpecUlp

\* a == b under IEEE equality.
IeeeEqual(a, b) ==
    \/ a.k = "zero" /\ b.k = "zero"
    \/ a.k \in {"inf", "fin"} /\ a = b

\* C14: ulpDiff(a, b) is 0 whenever a == b under IEEE equality (equal finite
\* values, +0 against -0 in either order, two infinities of the same sign):
\* the rule comes before every other rule.
C14_EqualIsZero ==
    (upc = "done" /\ IeeeEqual(opA, opB)) => ulpAB = UlpFin(0)

C14_Witness ==
    /\ upc = "done"
    /\ opA = NINF
    /\ opB = NINF
    /\ ulpAB = UlpFin(0)

\* C15: for operands that are not equal, ulpDiff returns NaN when either
\* operand is NaN (whatever the other is), and otherwise +Infinity when
\* either operand is an infinity.
C15_NonFinite ==
    (upc = "done" /\ ~IeeeEqual(opA, opB)) =>
        /\ (opA.k = "nan" \/ opB.k = "nan") => ulpAB = UlpNaN
        /\ (opA.k # "nan" /\ opB.k # "nan" /\ (opA.k = "inf" \/ opB.k = "inf")) =>
               ulpAB = UlpInf

C15_Witness ==
    /\ upc = "done"
    /\ opA = PINF
    /\ opB = NaN
    /\ ulpAB = UlpNaN
    /\ ulpBA = UlpNaN

\* C16: for a zero of either sign and b finite and nonzero, ulpDiff(a, b) is
\* |b| / (eps / 2), that is 2 * |b| / eps, a finite number.
C16_ZeroFirst ==
    (upc = "done" /\ opA.k = "zero" /\ opB.k = "fin") =>
        /\ ulpAB.k = "fin"
        /\ ulpAB.u = 2 * abs(opB.v) * UlpUnit

C16_Witness ==
    /\ upc = "done"
    /\ opA = NZero
    /\ opB = Fin(-2)
    /\ ulpAB = UlpFin(4 * UlpUnit)

\* C17: for a finite and nonzero, b finite (zero allowed) and a # b,
\* ulpDiff(a, b) is |a - b| / (|a| * eps): the difference is scaled by the
\* first argument only.
C17_RelativeToFirst ==
    (upc = "done" /\ opA.k = "fin" /\ opB.k \in {"fin", "zero"} /\ opA # opB) =>
        /\ ulpAB.k = "fin"
        /\ ulpAB.u * abs(opA.v) = abs(opA.v - Num(opB)) * UlpUnit

C17_Witness ==
    /\ upc = "done"
    /\ opA = Fin(2)
    /\ opB = Fin(-1)
    /\ ulpAB.k = "fin"
    /\ 2 * ulpAB.u = 3 * UlpUnit
    /\ ulpBA.u = 3 * UlpUnit

\* C18 as stated: ulpDiff(a, a) is 0 for every a, NaN included.
C18_Reflexive ==
    (upc = "done" /\ opA = opB) => ulpAB = UlpFin(0)

\* C18 amended: ulpDiff(a, a) is 0 for every finite or infinite a, and is NaN
\* for a = NaN.
C18_ReflexiveExceptNaN ==
    (upc = "done" /\ opA = opB) =>
        /\ opA.k # "nan" => ulpAB = UlpFin(0)
        /\ opA.k = "nan" => ulpAB = UlpNaN

C18_Witness ==
    /\ upc = "done"
    /\ opA = NaN
    /\ opB = NaN
    /\ ulpAB = UlpNaN

\* C19 as stated: ulpDiff(a, b) and ulpDiff(b, a) are the same for all a
\* and b.
C19_Symmetric ==
    upc = "done" => ulpAB = ulpBA

\* C19 amended: ulpDiff(a, b) and ulpDiff(b, a) are the same when a == b, when
\* an operand is NaN or an infinity, and when a and b are finite of the same
\* magnitude; they are not the same in general: ulpDiff(0, 1) is 2/eps and
\* ulpDiff(1, 0) is 1/eps, ulpDiff(1, 2) is 1/eps and ulpDiff(2, 1) is 0.5/eps.
C19_SymmetricCases ==
    upc = "done" =>
        /\ (\/ IeeeEqual(opA, opB)
            \/ opA.k \in {"nan", "inf"}
            \/ opB.k \in {"nan", "inf"}
            \/ abs(Num(opA)) = abs(Num(opB))) => ulpAB = ulpBA
        /\ (opA.k = "zero" /\ opB = Fin(1)) =>
               ulpAB = UlpFin(2 * UlpUnit) /\ ulpBA = UlpFin(UlpUnit)
        /\ (opA = Fin(1) /\ opB = Fin(2)) =>
               ulpAB = UlpFin(UlpUnit) /\ 2 * ulpBA.u = UlpUnit

C19_Witness ==
    /\ upc = "done"
    /\ opA = Fin(1)
    /\ opB = Fin(2)
    /\ ulpAB # ulpBA

----------------------------------------------------------------------------
\* Properties of SpecEdge

\* The result is NaN, an infinity or a zero.
IsSpecialValue(r) == r.k \in {"nan", "inf", "zero"}

\* C20 as stated: the flag shown for an input tells, for each function of the
\* table, whether that function's result is NaN, an infinity or a zero; it
\* does not depend on the results of the other functions.
C20_SpecialPerFunction ==
    \A r \in 1..Len(html) :
        \A c \in 1..Len(html[r].cells) :
            html[r].status = "Special" <=> IsSpecialValue(html[r].cells[c].result)

\* C20 amended: populateEdgeCases keeps one flag per input row: the row is
\* shown as special exactly when at least one function of the table returns
\* NaN, an infinity or a zero on the row's input.
C20_SpecialPerRow ==
    \A r \in 1..Len(html) :
        /\ Len(html[r].cells) = Len(EdgeFns)
        /\ html[r].status = "Special" <=>
               \E c \in 1..Len(html[r].cells) : IsSpecialValue(html[r].cells[c].result)

C20_Witness ==
    /\ epc = "done"
    /\ Len(html) = 2
    /\ html[1].status = "Special"
    /\ html[1].cells[1].result = PZero
    /\ html[1].cells[2].result = Fin(1)
    /\ html[1].cells[2].fn = "sqrt"
    /\ html[2].status = "Normal"

(***************************************************************************)
(* linspace of web/app.js.  start and stop are integers; step and the      *)
(* elements of out are quotients <<numerator, denominator>>, so that the   *)
(* division by n - 1 is exact.  A quotient with denominator 0 is what a    *)
(* division by zero leaves.                                                *)
(***************************************************************************)

\* Largest magnitude of start and stop.
MaxCoord == 2

\* Largest number of points asked of linspace.
MaxPoints == 4

\* a / b.
Quot(a, b) == <<a, b>>

\* The quotients p and q are finite and equal.
QuotEq(p, q) == p[2] # 0 /\ q[2] # 0 /\ p[1] * q[2] = q[1] * p[2]

\* The finite quotient p is less than or equal to the finite quotient q.
QuotLeq(p, q) ==
    IF (p[2] > 0) = (q[2] > 0) THEN p[1] * q[2] <= q[1] * p[2]
    ELSE p[1] * q[2] >= q[1] * p[2]

\* A linspace that divides by n.
linStepDivisorN(n) == n

\* The divisor of step = (stop - start) / (n - 1).
linStepDivisor(n) == n - 1

\* start + (step * i).
linElement(start, step, k) == Quot(start * step[2] + step[1] * k, step[2])

\* The other components keep their initial values.
LinAlone ==
    /\ SweepIdle
    /\ UlpIdle
    /\ EdgeIdle
    /\ WebUlpIdle
    /\ WebIdle
    /\ CliIdle
    /\ BtnIdle
    /\ LnIdle
    /\ PlotIdle

notLinVars == <<sweepVars, ulpVars, edgeVars, ulpWeb, webVars, cliVars,
                btnVars, lnVars, plotVars>>

InitLin ==
    /\ linStart \in -MaxCoord..MaxCoord
    /\ linStop \in -MaxCoord..MaxCoord
    /\ linN \in 0..MaxPoints
    /\ linStep = Quot(0, 1)
    /\ linOut = <<>>
    /\ linI = 0
    /\ linPc = "call"
    /\ LinAlone

\* out = new Array(n), and the return of the single point.
LinAllocate ==
    /\ linPc = "call"
    /\ IF linN = 1
       THEN /\ linOut' = <<Quot(linStart, 1)>>
            /\ linPc' = "done"
            /\ UNCHANGED linStep
       ELSE /\ linOut' = [k \in 1..linN |-> "empty"]
            /\ linStep' = Quot(linStop - linStart, linStepDivisor(linN))
            /\ linPc' = "loop"
    /\ linI' = 0
    /\ UNCHANGED <<linStart, linStop, linN>>
    /\ UNCHANGED notLinVars

\* One iteration of the for loop.
LinFill ==
    /\ linPc = "loop"
    /\ linI < linN
    /\ linOut' = [linOut EXCEPT ![linI + 1] = linElement(linStart, linStep, linI)]
    /\ linI' = linI + 1
    /\ UNCHANGED <<linStart, linStop, linN, linStep, linPc>>
    /\ UNCHANGED notLinVars

\* The loop condition fails: return out.
LinReturn ==
    /\ linPc = "loop"
    /\ linI >= linN
    /\ linPc' = "done"
    /\ UNCHANGED <<linStart, linStop, linN, linStep, linOut, linI>>
    /\ UNCHANGED notLinVars

NextLin == LinAllocate \/ LinFill \/ LinReturn

SpecLin == InitLin /\ [][NextLin]_vars

\* C21: linspace(start, stop, n) returns exactly n values for n >= 1; for
\* n = 1 the only value is start; for n >= 2 the value at index k is
\* start + k * (stop - start) / (n - 1), so the first value is start and the
\* values run from start towards stop.
C21_Linspace ==
    (linPc = "done" /\ linN >= 1) =>
        /\ Len(linOut) = linN
        /\ linN = 1 => linOut = <<Quot(linStart, 1)>>
        /\ linN >= 2 =>
            /\ \A k \in 0..(linN - 1) :
                   QuotEq(linOut[k + 1],
                          Quot(linStart * (linN - 1) + k * (linStop - linStart),
                               linN - 1))
            /\ QuotEq(linOut[1], Quot(linStart, 1))
            /\ \A k \in 1..(linN - 1) :
                   IF linStart <= linStop
                   THEN QuotLeq(linOut[k], linOut[k + 1])
                        /\ QuotLeq(linOut[k + 1], Quot(linStop, 1))
                   ELSE QuotLeq(linOut[k + 1], linOut[k])
                        /\ QuotLeq(Quot(linStop, 1), linOut[k + 1])

\* linspace has returned three or more points between distinct ends.
C21_Witness ==
    /\ linPc = "done"
    /\ linN >= 3
    /\ linStart # linStop
    /\ Len(linOut) = linN
    /\ ~QuotEq(linOut[2], linOut[1])

(***************************************************************************)
(* runAccuracyAnalysis and drawUlpPlot of web/app.js.  The sample points   *)
(* x[0..n-1] are the indices 1..n; the two functions are given by their    *)
(* values at the sample points.                                            *)
(***************************************************************************)

\* Largest number of sample points of an analysis (data.n).
MaxSamples == 2

\* The values the two functions take at a sample point.
WebValues == {NaN, PINF, PZero, Fin(1), Fin(MaxMag)}

\* isnan of web/app.js: x !== x.
webIsnan(x) == ~StrictEq(x, x)

\* An isinfinite that tests x === PINF only.
webIsinfinitePositive(x) == StrictEq(x, PINF)

\* isinfinite of web/app.js: x === PINF || x === NINF.
webIsinfinite(x) == StrictEq(x, PINF) \/ StrictEq(x, NINF)

\* ulpDiff of web/app.js.
webUlpDiff(a, b) ==
    IF StrictEq(a, b) THEN UlpFin(0)
    ELSE IF webIsnan(a) \/ webIsnan(b) THEN UlpNaN
    ELSE IF webIsinfinite(a) \/ webIsinfinite(b) THEN UlpInf
    ELSE IF StrictEq(a, PZero) THEN UlpFin(abs(Num(b)) * 2 * UlpUnit)
    ELSE UlpFin((abs(Num(a) - Num(b)) * UlpUnit) \div abs(Num(a)))

\* The two early branches of the loop body: both values NaN, or refVal ===
\* natVal.
WebAgreed(refVal, natVal) ==
    \/ webIsnan(refVal) /\ webIsnan(natVal)
    \/ StrictEq(refVal, natVal)

\* !isnan(d) && !isinfinite(d) for the distance d of a sample that did not
\* agree.
WebFiniteDiff(refVal, natVal) ==
    /\ ~WebAgreed(refVal, natVal)
    /\ webUlpDiff(refVal, natVal).k = "fin"

\* The 'ulp' property pushed for a sample.
WebPushedUlp(refVal, natVal) ==
    IF WebFiniteDiff(refVal, natVal) THEN webUlpDiff(refVal, natVal).u ELSE 0

\* The marker drawUlpPlot draws for a point: ulps[i].ulp === 0 selects the
\* small green rectangle, anything else the orange disc.
WebMarker(point) == IF point.ulp = 0 THEN "exact" ELSE "divergent"

WebAlone ==
    /\ SweepIdle
    /\ UlpIdle
    /\ EdgeIdle
    /\ WebUlpIdle
    /\ LinIdle
    /\ CliIdle
    /\ BtnIdle
    /\ LnIdle
    /\ PlotIdle

notWebVars == <<sweepVars, ulpVars, edgeVars, ulpWeb, linVars, cliVars,
                btnVars, lnVars, plotVars>>

InitWeb ==
    /\ webN \in 1..MaxSamples
    /\ refFn \in [1..webN -> WebValues]
    /\ webNativeFn \in [1..webN -> WebValues]
    /\ webI = 0
    /\ webNAgree = 0
    /\ webNDiff = 0
    /\ webMaxUlp = 0
    /\ webTotalUlp = 0
    /\ ulps = <<>>
    /\ webStats = <<>>
    /\ drawn = <<>>
    /\ wpc = "loop"
    /\ WebAlone

\* One iteration of the for loop of runAccuracyAnalysis.
WebSample ==
    /\ wpc = "loop"
    /\ webI < webN
    /\ LET x == webI + 1
           refVal == refFn[x]
           natVal == webNativeFn[x]
           d == WebPushedUlp(refVal, natVal)
       IN /\ ulps' = Append(ulps, [x |-> x, ulp |-> d])
          /\ webNAgree' = IF WebAgreed(refVal, natVal)
                          THEN webNAgree + 1 ELSE webNAgree
          /\ webNDiff' = IF WebFiniteDiff(refVal, natVal)
                         THEN webNDiff + 1 ELSE webNDiff
          /\ webTotalUlp' = IF WebFiniteDiff(refVal, natVal)
                            THEN webTotalUlp + d ELSE webTotalUlp
          /\ webMaxUlp' = IF WebFiniteDiff(refVal, natVal) /\ d > webMaxUlp
                          THEN d ELSE webMaxUlp
    /\ webI' = webI + 1
    /\ UNCHANGED <<refFn, webNativeFn, webN, webStats, drawn, wpc>>
    /\ UNCHANGED notWebVars

\* The statistics are written and drawUlpPlot is called.
WebStats ==
    /\ wpc = "loop"
    /\ webI >= webN
    /\ webStats' = [points |-> webN,
                    agree |-> toFixed1(JsDiv(webNAgree * 100, webN)),
                    maxUlp |-> JsDiv(webMaxUlp, 1),
                    avgUlp |-> IF webNDiff > 0
                               THEN JsDiv(webTotalUlp, webNDiff)
                               ELSE JsDiv(0, 1)]
    /\ webI' = 0
    /\ wpc' = "draw"
    /\ UNCHANGED <<refFn, webNativeFn, webN, webNAgree, webNDiff, webMaxUlp,
                   webTotalUlp, ulps, drawn>>
    /\ UNCHANGED notWebVars

\* One iteration of the loop of drawUlpPlot over the points.
WebDraw ==
    /\ wpc = "draw"
    /\ webI < Len(ulps)
    /\ drawn' = Append(drawn, [x |-> ulps[webI + 1].x,
                               marker |-> WebMarker(ulps[webI + 1])])
    /\ webI' = webI + 1
    /\ UNCHANGED <<refFn, webNativeFn, webN, webNAgree, webNDiff, webMaxUlp,
                   webTotalUlp, ulps, webStats, wpc>>
    /\ UNCHANGED notWebVars

\* drawUlpPlot and runAccuracyAnalysis return.
WebReturn ==
    /\ wpc = "draw"
    /\ webI >= Len(ulps)
    /\ wpc' = "done"
    /\ UNCHANGED <<refFn, webNativeFn, webN, webI, webNAgree, webNDiff,
                   webMaxUlp, webTotalUlp, ulps, webStats, drawn>>
    /\ UNCHANGED notWebVars

NextWeb == WebSample \/ WebStats \/ WebDraw \/ WebReturn

SpecWeb == InitWeb /\ [][NextWeb]_vars

\* C22: in the scatter plot every sample point is drawn exactly once; a point
\* has the exact-match marker only if the reference and the native value
\* agreed there, and every sample where they disagree, a sample whose ULP
\* distance is NaN or infinite included, has the divergent marker.
C22_MarkersTellAgreement ==
    wpc = "done" =>
        /\ Len(drawn) = webN
        /\ \A k \in 1..Len(drawn) :
               /\ drawn[k].x = k
               /\ drawn[k].marker = "exact" <=>
                      WebAgreed(refFn[k], webNativeFn[k])

(***************************************************************************)
(* A node process started with index.js or with one of the three library   *)
(* modules.  The functions under test are outside the repository: each     *)
(* test passes or fails, and a call of a function under test may throw.    *)
(* An uncaught exception ends the process with exit code 1, the end of     *)
(* the entry file with the exit code ExitCodeAtEnd.                        *)
(***************************************************************************)

\* Calls of testCase in testExp, testLn and testSqrt.
ExpTestCases == 8
LnTestCases == 7
SqrtTestCases == 8

\* Calls of testCase in one call of edgeCases.
EdgeTestCases == ExpTestCases + LnTestCases + SqrtTestCases

LibModules == {"lib/compare.js", "lib/edge_cases.js", "lib/ascii_plot.js"}

EntryFiles == {"index.js"} \cup LibModules

\* What index.js prints, in the order of its statements.
IndexSections == <<"header", "compare", "edgeCases", "asciiPlot", "complete">>

\* An exit code that tells of failed tests.
ExitCodeCountsFailures(failed) == IF failed > 0 THEN 1 ELSE 0

\* The exit code of a process whose entry file ran to its end: nothing in
\* the program sets process.exitCode or calls process.exit.
ExitCodeAtEnd(failed) == 0

CliAlone ==
    /\ SweepIdle
    /\ UlpIdle
    /\ EdgeIdle
    /\ WebUlpIdle
    /\ LinIdle
    /\ WebIdle
    /\ BtnIdle
    /\ LnIdle
    /\ PlotIdle

notCliVars == <<sweepVars, ulpVars, edgeVars, ulpWeb, linVars, webVars,
                btnVars, lnVars, plotVars>>

InitCli ==
    /\ entry \in EntryFiles
    /\ cpc = "start"
    /\ printed = <<>>
    /\ testsRun = 0
    /\ passLines = 0
    /\ failLines = 0
    /\ exitCode = -1
    /\ CliAlone

\* A library module as entry file: its functions are defined and one of
\* them is assigned to module.exports; none is called.
CliLoadModule ==
    /\ cpc = "start"
    /\ entry \in LibModules
    /\ cpc' = "exited"
    /\ exitCode' = ExitCodeAtEnd(failLines)
    /\ UNCHANGED <<entry, printed, testsRun, passLines, failLines>>
    /\ UNCHANGED notCliVars

\* index.js: the three require calls and the header.
CliHeader ==
    /\ cpc = "start"
    /\ entry = "index.js"
    /\ printed' = Append(printed, "header")
    /\ cpc' = "compare"
    /\ UNCHANGED <<entry, testsRun, passLines, failLines, exitCode>>
    /\ UNCHANGED notCliVars

\* compare() returns.
CliCompare ==
    /\ cpc = "compare"
    /\ printed' = Append(printed, "compare")
    /\ cpc' = "edgeCases"
    /\ UNCHANGED <<entry, testsRun, passLines, failLines, exitCode>>
    /\ UNCHANGED notCliVars

\* One call of testCase: one PASS or one FAIL line.
CliTestCase ==
    /\ cpc = "edgeCases"
    /\ testsRun < EdgeTestCases
    /\ \E passed \in BOOLEAN :
          /\ passLines' = IF passed THEN passLines + 1 ELSE passLines
          /\ failLines' = IF passed THEN failLines ELSE failLines + 1
    /\ testsRun' = testsRun + 1
    /\ UNCHANGED <<entry, cpc, printed, exitCode>>
    /\ UNCHANGED notCliVars

\* testIEEE754 prints the constants and edgeCases() returns.
CliEdgeCases ==
    /\ cpc = "edgeCases"
    /\ testsRun = EdgeTestCases
    /\ printed' = Append(printed, "edgeCases")
    /\ cpc' = "asciiPlot"
    /\ UNCHANGED <<entry, testsRun, passLines, failLines, exitCode>>
    /\ UNCHANGED notCliVars

\* asciiPlot() returns.
CliAsciiPlot ==
    /\ cpc = "asciiPlot"
    /\ printed' = Append(printed, "asciiPlot")
    /\ cpc' = "banner"
    /\ UNCHANGED <<entry, testsRun, passLines, failLines, exitCode>>
    /\ UNCHANGED notCliVars

\* The completion banner, and the end of index.js.
CliComplete ==
    /\ cpc = "banner"
    /\ printed' = Append(printed, "complete")
    /\ cpc' = "exited"
    /\ exitCode' = ExitCodeAtEnd(failLines)
    /\ UNCHANGED <<entry, testsRun, passLines, failLines>>
    /\ UNCHANGED notCliVars

\* A function under test throws inside compare(), edgeCases() or
\* asciiPlot(): nothing catches the exception.
CliThrow ==
    /\ cpc \in {"compare", "edgeCases", "asciiPlot"}
    /\ cpc' = "crashed"
    /\ exitCode' = 1
    /\ UNCHANGED <<entry, printed, testsRun, passLines, failLines>>
    /\ UNCHANGED notCliVars

NextCli ==
    \/ CliLoadModule
    \/ CliHeader
    \/ CliCompare
    \/ CliTestCase
    \/ CliEdgeCases
    \/ CliAsciiPlot
    \/ CliComplete
    \/ CliThrow

SpecCli == InitCli /\ [][NextCli]_vars

\* C23: a process started with lib/compare.js, lib/edge_cases.js or
\* lib/ascii_plot.js runs the demo of that module and prints its output.
C23_ModuleRunsItsDemo ==
    (cpc = "exited" /\ entry \in LibModules) => Len(printed) > 0

\* C24: one call of edgeCases() makes exactly 24 calls of testCase, each
\* printing exactly one PASS or FAIL line.
C24_TwentyFourTests ==
    "edgeCases" \in {printed[k] : k \in 1..Len(printed)} =>
        /\ testsRun = 24
        /\ passLines + failLines = 24

\* C25: index.js runs the comparison, the edge case tests and the plots in
\* this order; when the three have returned the process ends with exit code
\* 0 whatever the PASS and FAIL lines; the exit code is nonzero only when a
\* function under test threw, and then the completion banner is not printed.
C25_ExitCode ==
    entry = "index.js" =>
        /\ printed = SubSeq(IndexSections, 1, Len(printed))
        /\ cpc = "exited" => exitCode = 0 /\ printed = IndexSections
        /\ cpc = "crashed" =>
              /\ exitCode # 0
              /\ "complete" \notin {printed[k] : k \in 1..Len(printed)}
        /\ exitCode \notin {-1, 0} => cpc = "crashed"
        /\ exitCode = -1 <=> cpc \notin {"exited", "crashed"}

\* index.js has ended after tests that printed FAIL lines.
C25_Witness ==
    /\ entry = "index.js"
    /\ cpc = "exited"
    /\ failLines > 0
    /\ passLines > 0

(***************************************************************************)
(* runComparison with the overflow of the float64 sum totalDiff.  Every    *)
(* finite distance is at most FLOAT64_MAX, and a float64 sum above         *)
(* FLOAT64_MAX is Infinity.  Here totalDiff is a record [k, u] like a ULP  *)
(* distance, and UlpMax, the largest distance ulpDiff returns for the      *)
(* values of the model, stands for FLOAT64_MAX.                            *)
(***************************************************************************)

\* The largest finite float64 in the units of the ULP distances.
UlpMax == 2 * MaxMag * UlpUnit

\* The float64 sum s + d of the running sum s and a finite distance d.
FloatSum(s, d) ==
    IF s.k = "inf" \/ s.u + d > UlpMax THEN UlpInf ELSE UlpFin(s.u + d)

\* The float64 quotient s / m of the running sum s and a count m.
FloatSumDiv(s, m) ==
    IF s.k = "inf" THEN [k |-> "inf", n |-> 0, d |-> 1] ELSE JsDiv(s.u, m)

InitOverflow ==
    /\ stdlibFn \in [Inputs -> Float64]
    /\ nativeFn \in [Inputs -> Float64]
    /\ prevOutcome = "none"
    /\ UlpIdle
    /\ EdgeIdle
    /\ RestIdle
    /\ testPoints \in UNION {[1..n -> Inputs] : n \in 0..MaxLen}
    /\ i = 0
    /\ maxUlpDiff = 0
    /\ totalDiff = UlpFin(0)
    /\ worstCase = 0
    /\ nAgree = 0
    /\ nTotal = 0
    /\ pc = "loop"
    /\ report = [pointsTested |-> 0, nAgree |-> 0, nTotal |-> 0,
                 pct |-> NotPrinted, branch |-> "none", detail |-> <<>>]

\* One iteration of the for loop.
StepOverflow ==
    /\ pc = "loop"
    /\ i < Len(testPoints)
    /\ LET x == testPoints[i + 1]
           stdlibVal == stdlibFn[x]
           nativeVal == nativeFn[x]
       IN /\ nTotal' = IF Counted(stdlibVal, nativeVal) THEN nTotal + 1 ELSE nTotal
          /\ nAgree' = IF Agreed(stdlibVal, nativeVal) THEN nAgree + 1 ELSE nAgree
          /\ totalDiff' = IF Accumulated(stdlibVal, nativeVal)
                          THEN FloatSum(totalDiff, ulpDiff(stdlibVal, nativeVal).u)
                          ELSE totalDiff
          /\ maxUlpDiff' = IF NewMax(stdlibVal, nativeVal)
                           THEN ulpDiff(stdlibVal, nativeVal).u
                           ELSE maxUlpDiff
          /\ worstCase' = IF NewMax(stdlibVal, nativeVal) THEN x ELSE worstCase
    /\ i' = i + 1
    /\ UNCHANGED <<stdlibFn, nativeFn, testPoints, pc, report, prevOutcome>>
    /\ UNCHANGED <<ulpVars, edgeVars, restVars>>

\* The lines printed after the loop.
ReportOverflow ==
    /\ pc = "loop"
    /\ i = Len(testPoints)
    /\ report' =
         [pointsTested |-> Len(testPoints),
          nAgree |-> nAgree,
          nTotal |-> nTotal,
          pct |-> toFixed1(JsDiv(100 * nAgree, nTotal)),
          branch |-> IF NumericBranch THEN "numeric" ELSE "perfect",
          detail |-> IF NumericBranch
                     THEN [maxUlp |-> JsDiv(maxUlpDiff, 1),
                           avgUlp |-> FloatSumDiv(totalDiff, nTotal - nAgree),
                           worst |-> worstCase,
                           stdlibAtWorst |-> stdlibFn[worstCase],
                           nativeAtWorst |-> nativeFn[worstCase]]
                     ELSE <<>>]
    /\ pc' = "done"
    /\ UNCHANGED <<stdlibFn, nativeFn, testPoints, i, nTotal, nAgree,
                   totalDiff, maxUlpDiff, worstCase, prevOutcome>>
    /\ UNCHANGED <<ulpVars, edgeVars, restVars>>

NextOverflow == StepOverflow \/ ReportOverflow

SpecOverflow == InitOverflow /\ [][NextOverflow]_vars

\* C26: whenever maxUlpDiff > 0 at the end of the loop, nTotal - nAgree >= 1,
\* so the average of the numeric branch does not divide by zero, and the
\* printed average totalDiff / (nTotal - nAgree) is not greater than
\* maxUlpDiff.
C26_AverageAtMostMax ==
    (pc = "done" /\ report.branch = "numeric") =>
        /\ report.nTotal - report.nAgree >= 1
        /\ report.detail.avgUlp.k = "fin"
        /\ report.detail.avgUlp.n <= maxUlpDiff * report.detail.avgUlp.d

\* The first half of C26 alone: the numeric branch never divides by zero.
C26_DivisorPositive ==
    NumericBranch => nTotal - nAgree >= 1

(***************************************************************************)
(* The ulpDiff of lib/compare.js and the ulpDiff of web/app.js called on   *)
(* the same pair of operands.                                              *)
(***************************************************************************)

\* The ulpDiff of web/app.js is called on the operands of the call of the
\* ulpDiff of lib/compare.js.
CallWebUlpDiff ==
    /\ upc = "done"
    /\ ulpWeb' = webUlpDiff(opA, opB)
    /\ upc' = "both"
    /\ UNCHANGED <<opA, opB, ulpAB, ulpBA>>
    /\ UNCHANGED <<sweepVars, edgeVars, linVars, webVars, cliVars, btnVars,
                   lnVars, plotVars>>

NextUlpBoth == CallUlpDiff \/ CallWebUlpDiff

SpecUlpBoth == InitUlp /\ [][NextUlpBoth]_vars

\* C27: the ulpDiff of lib/compare.js and the ulpDiff of web/app.js return
\* the same value for every pair of operands among NaN, the infinities, the
\* zeros and the finite nonzero numbers.
C27_SameUlpDiff ==
    upc = "both" => ulpWeb = ulpAB

\* Both functions have returned for a negative zero against a finite
\* nonzero number, and for neither order the distance is zero.
C27_Witness ==
    /\ upc = "both"
    /\ opA = NZero
    /\ opB.k = "fin"
    /\ ulpWeb.k = "fin"
    /\ ulpWeb.u > 0

(***************************************************************************)
(* The buttons 'Run Analysis' and 'Run Benchmark' of web/app.js.  The      *)
(* event loop runs one click handler or one timer callback at a time, a    *)
(* disabled button fires no click event, and a timer that was set does     *)
(* fire.                                                                   *)
(***************************************************************************)

\* Largest number of clicks handled on one button.
MaxClicks == 4

Buttons == {"runAccuracyBtn", "runBenchmarkBtn"}

\* The textContent the click handler sets.
BusyLabel(b) == IF b = "runAccuracyBtn" THEN "Analyzing..." ELSE "Running..."

\* The textContent the timer callback sets.
ReadyLabel(b) == IF b = "runAccuracyBtn" THEN "Run Analysis" ELSE "Run Benchmark"

\* A click handler that leaves the button enabled.
ClickLeavesEnabled == FALSE

\* The value the click handler assigns to the disabled property.
ClickDisabled == TRUE

BtnAlone ==
    /\ SweepIdle
    /\ UlpIdle
    /\ EdgeIdle
    /\ WebUlpIdle
    /\ LinIdle
    /\ WebIdle
    /\ CliIdle
    /\ LnIdle
    /\ PlotIdle

notBtnVars == <<sweepVars, ulpVars, edgeVars, ulpWeb, linVars, webVars,
                cliVars, lnVars, plotVars>>

\* The page after the script has run: the listeners are registered, the
\* buttons are as the markup of the page has them.
InitBtn ==
    /\ btnDisabled = [b \in Buttons |-> FALSE]
    /\ btnLabel = [b \in Buttons |-> "markup"]
    /\ btnTimers = [b \in Buttons |-> 0]
    /\ btnClicks = [b \in Buttons |-> 0]
    /\ btnRuns = [b \in Buttons |-> 0]
    /\ btnRunning = "none"
    /\ BtnAlone

\* onClick.
BtnClick(b) ==
    /\ btnRunning = "none"
    /\ ~btnDisabled[b]
    /\ btnClicks[b] < MaxClicks
    /\ btnDisabled' = [btnDisabled EXCEPT ![b] = ClickDisabled]
    /\ btnLabel' = [btnLabel EXCEPT ![b] = BusyLabel(b)]
    /\ btnTimers' = [btnTimers EXCEPT ![b] = @ + 1]
    /\ btnClicks' = [btnClicks EXCEPT ![b] = @ + 1]
    /\ UNCHANGED <<btnRuns, btnRunning>>
    /\ UNCHANGED notBtnVars

\* The timer fires: doAnalysis or doBench calls runAccuracyAnalysis or
\* runBenchmarks.
BtnTimerFires(b) ==
    /\ btnRunning = "none"
    /\ btnTimers[b] > 0
    /\ btnTimers' = [btnTimers EXCEPT ![b] = @ - 1]
    /\ btnRuns' = [btnRuns EXCEPT ![b] = @ + 1]
    /\ btnRunning' = b
    /\ UNCHANGED <<btnDisabled, btnLabel, btnClicks>>
    /\ UNCHANGED notBtnVars

\* The analysis has returned: the last two statements of the callback.
BtnTimerEnds(b) ==
    /\ btnRunning = b
    /\ btnDisabled' = [btnDisabled EXCEPT ![b] = FALSE]
    /\ btnLabel' = [btnLabel EXCEPT ![b] = ReadyLabel(b)]
    /\ btnRunning' = "none"
    /\ UNCHANGED <<btnTimers, btnClicks, btnRuns>>
    /\ UNCHANGED notBtnVars

NextBtn ==
    \E b \in Buttons : BtnClick(b) \/ BtnTimerFires(b) \/ BtnTimerEnds(b)

\* Timers fire in the order they were set, whatever else is clicked, and a
\* callback runs to its end.
FairBtn ==
    \A b \in Buttons : SF_vars(BtnTimerFires(b)) /\ WF_vars(BtnTimerEnds(b))

SpecBtn == InitBtn /\ [][NextBtn]_vars /\ FairBtn

\* The callback of button b is set and has not fired, or is executing.
BtnPending(b) == btnTimers[b] > 0 \/ btnRunning = b

\* C28: a click on 'Run Analysis' disables the button and sets its label to
\* 'Analyzing...' before the analysis; the analysis runs exactly once per
\* click, in a later timer callback; the button is disabled until that
\* callback has finished, so that at most one analysis is pending; and after
\* every click the button is eventually enabled again with the label
\* 'Run Analysis'.
C28_RunAnalysisButton ==
    /\ [](/\ btnTimers["runAccuracyBtn"]
               + (IF btnRunning = "runAccuracyBtn" THEN 1 ELSE 0) <= 1
          /\ btnRuns["runAccuracyBtn"] + btnTimers["runAccuracyBtn"]
               = btnClicks["runAccuracyBtn"]
          /\ BtnPending("runAccuracyBtn") <=> btnDisabled["runAccuracyBtn"]
          /\ btnDisabled["runAccuracyBtn"]
               => btnLabel["runAccuracyBtn"] = "Analyzing...")
    /\ [][btnClicks'["runAccuracyBtn"] # btnClicks["runAccuracyBtn"] =>
            /\ btnRuns'["runAccuracyBtn"] = btnRuns["runAccuracyBtn"]
            /\ btnDisabled'["runAccuracyBtn"]
            /\ btnLabel'["runAccuracyBtn"] = "Analyzing..."]_vars
    /\ btnDisabled["runAccuracyBtn"]
         ~> (/\ ~btnDisabled["runAccuracyBtn"]
             /\ btnLabel["runAccuracyBtn"] = "Run Analysis")

\* Two clicks on 'Run Analysis' were handled, both analyses have run, and
\* the button is enabled with its label restored.
C28_Witness ==
    /\ btnClicks["runAccuracyBtn"] = 2
    /\ btnRuns["runAccuracyBtn"] = 2
    /\ btnRunning = "none"
    /\ ~btnDisabled["runAccuracyBtn"]
    /\ btnLabel["runAccuracyBtn"] = "Run Analysis"

(***************************************************************************)
(* The range reduction of refLn of web/app.js, for a positive finite x.    *)
(* x and m are quotients <<numerator, denominator>> whose denominator is   *)
(* a power of two, as every finite float64 is; halving and doubling are    *)
(* exact.  The series that follows the reduction is not evaluated.         *)
(***************************************************************************)

\* Largest numerator of x.
MaxLnNum == 6

\* Largest binary exponent of the denominator of x.
MaxLnShift == 4

RECURSIVE Pow2(_)
Pow2(n) == IF n = 0 THEN 1 ELSE 2 * Pow2(n - 1)

\* m >= 2.0.
lnAtLeastTwo(m) == m[1] >= 2 * m[2]

\* m < 0.5.
lnBelowHalf(m) == 2 * m[1] < m[2]

LnAlone ==
    /\ SweepIdle
    /\ UlpIdle
    /\ EdgeIdle
    /\ WebUlpIdle
    /\ LinIdle
    /\ WebIdle
    /\ CliIdle
    /\ BtnIdle
    /\ PlotIdle

notLnVars == <<sweepVars, ulpVars, edgeVars, ulpWeb, linVars, webVars,
               cliVars, btnVars, plotVars>>

\* refLn is called with a positive finite x.
InitLn ==
    /\ lnX \in {Quot(n, Pow2(sh)) : n \in 1..MaxLnNum, sh \in 0..MaxLnShift}
    /\ lnM = Quot(0, 1)
    /\ lnE = 0
    /\ lnPc = "entry"
    /\ LnAlone

\* None of the three early returns is taken; e = 0, m = x.
LnEnter ==
    /\ lnPc = "entry"
    /\ lnX[1] > 0
    /\ lnM' = lnX
    /\ lnE' = 0
    /\ lnPc' = "halve"
    /\ UNCHANGED lnX
    /\ UNCHANGED notLnVars

\* One iteration of while (m >= 2.0).
LnHalve ==
    /\ lnPc = "halve"
    /\ lnAtLeastTwo(lnM)
    /\ lnM' = Quot(lnM[1], 2 * lnM[2])
    /\ lnE' = lnE + 1
    /\ UNCHANGED <<lnX, lnPc>>
    /\ UNCHANGED notLnVars

\* The first loop ends.
LnHalved ==
    /\ lnPc = "halve"
    /\ ~lnAtLeastTwo(lnM)
    /\ lnPc' = "double"
    /\ UNCHANGED <<lnX, lnM, lnE>>
    /\ UNCHANGED notLnVars

\* One iteration of while (m < 0.5).
LnDouble ==
    /\ lnPc = "double"
    /\ lnBelowHalf(lnM)
    /\ lnM' = Quot(2 * lnM[1], lnM[2])
    /\ lnE' = lnE - 1
    /\ UNCHANGED <<lnX, lnPc>>
    /\ UNCHANGED notLnVars

\* The second loop ends: the point of the comment 'Now m is in [0.5, 1)
\* and x = m * 2^e'.
LnDoubled ==
    /\ lnPc = "double"
    /\ ~lnBelowHalf(lnM)
    /\ lnPc' = "reduced"
    /\ UNCHANGED <<lnX, lnM, lnE>>
    /\ UNCHANGED notLnVars

\* The series is summed and refLn returns.
LnReturn ==
    /\ lnPc = "reduced"
    /\ lnPc' = "done"
    /\ UNCHANGED <<lnX, lnM, lnE>>
    /\ UNCHANGED notLnVars

NextLn == LnEnter \/ LnHalve \/ LnHalved \/ LnDouble \/ LnDoubled \/ LnReturn

SpecLn == InitLn /\ [][NextLn]_vars

\* x = m * 2^e.
LnIdentity ==
    IF lnE >= 0
    THEN lnX[1] * lnM[2] = lnM[1] * Pow2(lnE) * lnX[2]
    ELSE lnX[1] * lnM[2] * Pow2(-lnE) = lnM[1] * lnX[2]

\* C29: for every positive finite x the two loops of refLn end and leave m
\* in [0.5, 1) with x = m * 2^e.
C29_ReducedToHalfOpenUnit ==
    lnPc = "reduced" =>
        /\ lnM[2] <= 2 * lnM[1]
        /\ lnM[1] < lnM[2]
        /\ LnIdentity

\* What the loops do leave: m in [0.5, 2) with x = m * 2^e.
C29_ReducedBelowTwo ==
    lnPc = "reduced" =>
        /\ lnM[2] <= 2 * lnM[1]
        /\ lnM[1] < 2 * lnM[2]
        /\ LnIdentity

(***************************************************************************)
(* plotFunction of lib/ascii_plot.js.  The function is given by its        *)
(* samples y[0..PLOT_WIDTH-1], here the columns 1..PlotWidth.  A finite    *)
(* sample is Fin(n) for an integer n, zero included (the sign of zero      *)
(* plays no part).  The float64 arithmetic is exact on the small values;   *)
(* PlotHuge is a finite float64 of magnitude 2^53 or more, where the       *)
(* spacing of the float64 values is 2 or more, so that a sum or            *)
(* difference within 1 of PlotHuge is rounded to PlotHuge.                 *)
(***************************************************************************)

\* Number of columns of the plot (PLOT_WIDTH, 60 in the program).
PlotWidth == 3

\* Number of rows of the plot.
PLOT_HEIGHT == 18

\* A finite float64 too large to hold its own neighbours at distance 1.
PlotHuge == 1000

\* The finite sample values.
PlotFinite == {-1, 0, 1, PlotHuge}

PlotValues == {NaN, PINF, NINF} \cup {Fin(n) : n \in PlotFinite}

\* The float64 nearest to the number r.
PlotFloat(r) ==
    IF abs(r - PlotHuge) <= 1 THEN PlotHuge
    ELSE IF abs(r + PlotHuge) <= 1 THEN -PlotHuge
    ELSE r

\* a < b on float64 values that are not NaN.
PlotLess(a, b) ==
    IF a.k = "inf" THEN a.v < 0 /\ b # a
    ELSE IF b.k = "inf" THEN b.v > 0
    ELSE a.v < b.v

\* !isnan(y) && !isinfinite(y).
PlotFiniteSample(yv) == ~isnan(yv) /\ ~isinfinite(yv)

\* floor(max(0, min(PLOT_HEIGHT - 1, round((1.0 - (v - ymin) / (ymax - ymin))
\* * (PLOT_HEIGHT - 1))))) for finite v, lo = ymin, hi = ymax with
\* lo <= v <= hi: 0/0 is NaN, and round, min, max and floor return NaN for
\* NaN; round rounds a tie upwards.  The row is a float64, Fin(r) or NaN.
PlotRowOf(v, lo, hi) ==
    LET a == PlotFloat(v - lo)
        d == PlotFloat(hi - lo)
        r == (2 * (d - a) * (PLOT_HEIGHT - 1) + d) \div (2 * d)
    IN IF d = 0 THEN NaN
       ELSE IF r < 0 THEN Fin(0)
       ELSE IF r > PLOT_HEIGHT - 1 THEN Fin(PLOT_HEIGHT - 1)
       ELSE Fin(r)

PlotAlone ==
    /\ SweepIdle
    /\ UlpIdle
    /\ EdgeIdle
    /\ WebUlpIdle
    /\ LinIdle
    /\ WebIdle
    /\ CliIdle
    /\ BtnIdle
    /\ LnIdle

notPlotVars == <<sweepVars, ulpVars, edgeVars, ulpWeb, linVars, webVars,
                 cliVars, btnVars, lnVars>>

InitPlot ==
    /\ plotY \in [1..PlotWidth -> PlotValues]
    /\ ymin = PINF
    /\ ymax = NINF
    /\ grid = <<>>
    /\ plotI = 0
    /\ plotRow = Fin(0)
    /\ ppc = "sample"
    /\ PlotAlone

\* One iteration of the loop that finds ymin and ymax.
PlotSample ==
    /\ ppc = "sample"
    /\ plotI < PlotWidth
    /\ LET yv == plotY[plotI + 1]
       IN /\ ymin' = IF PlotFiniteSample(yv) /\ PlotLess(yv, ymin)
                     THEN yv ELSE ymin
          /\ ymax' = IF PlotFiniteSample(yv) /\ PlotLess(ymax, yv)
                     THEN yv ELSE ymax
    /\ plotI' = plotI + 1
    /\ UNCHANGED <<plotY, grid, plotRow, ppc>>
    /\ UNCHANGED notPlotVars

\* The case ymin === ymax, and the grid of spaces.
PlotGrid ==
    /\ ppc = "sample"
    /\ plotI >= PlotWidth
    /\ IF StrictEq(ymin, ymax)
       THEN /\ ymin' = Fin(PlotFloat(ymin.v - 1))
            /\ ymax' = Fin(PlotFloat(ymax.v + 1))
       ELSE UNCHANGED <<ymin, ymax>>
    /\ grid' = [r \in 0..(PLOT_HEIGHT - 1) |-> [c \in 1..PlotWidth |-> " "]]
    /\ plotI' = 0
    /\ ppc' = "points"
    /\ UNCHANGED <<plotY, plotRow>>
    /\ UNCHANGED notPlotVars

\* One iteration of the loop that plots the points.  grid[NaN] is
\* undefined, and the assignment to its element throws a TypeError.
PlotPoint ==
    /\ ppc = "points"
    /\ plotI < PlotWidth
    /\ IF PlotFiniteSample(plotY[plotI + 1])
       THEN LET row == PlotRowOf(plotY[plotI + 1].v, ymin.v, ymax.v)
            IN /\ plotRow' = row
               /\ IF row.k = "fin"
                  THEN /\ grid' = [grid EXCEPT ![row.v][plotI + 1] = "o"]
                       /\ plotI' = plotI + 1
                       /\ UNCHANGED ppc
                  ELSE /\ ppc' = "TypeError"
                       /\ UNCHANGED <<grid, plotI>>
       ELSE /\ plotI' = plotI + 1
            /\ UNCHANGED <<grid, plotRow, ppc>>
    /\ UNCHANGED <<plotY, ymin, ymax>>
    /\ UNCHANGED notPlotVars

\* ymin <= 0.0 && ymax >= 0.0.
PlotZeroInRange == ~PlotLess(Fin(0), ymin) /\ ~PlotLess(ymax, Fin(0))

\* The zero line.
PlotZeroLine ==
    /\ ppc = "points"
    /\ plotI >= PlotWidth
    /\ IF PlotZeroInRange
       THEN LET row == PlotRowOf(0, ymin.v, ymax.v)
            IN /\ plotRow' = row
               /\ IF row.k = "fin"
                  THEN /\ grid' = [grid EXCEPT ![row.v] =
                                      [c \in 1..PlotWidth |->
                                          IF grid[row.v][c] = " " THEN "."
                                          ELSE grid[row.v][c]]]
                       /\ ppc' = "print"
                  ELSE /\ ppc' = "TypeError"
                       /\ UNCHANGED grid
       ELSE /\ ppc' = "print"
            /\ UNCHANGED <<grid, plotRow>>
    /\ UNCHANGED <<plotY, ymin, ymax, plotI>>
    /\ UNCHANGED notPlotVars

\* The plot is printed.
PlotPrint ==
    /\ ppc = "print"
    /\ ppc' = "done"
    /\ UNCHANGED <<plotY, ymin, ymax, grid, plotI, plotRow>>
    /\ UNCHANGED notPlotVars

NextPlot == PlotSample \/ PlotGrid \/ PlotPoint \/ PlotZeroLine \/ PlotPrint

SpecPlot == InitPlot /\ [][NextPlot]_vars

\* C30: every write of plotFunction into the grid uses a row in
\* 0..PLOT_HEIGHT-1 and a column in 0..PLOT_WIDTH-1, whatever finite, NaN or
\* infinite samples the function has, all samples equal and no finite
\* sample included; a sample that is not finite plots no marker; the zero
\* line overwrites no marker.
C30_GridWritesInRange ==
    /\ ppc # "TypeError"
    /\ plotRow.k = "fin"
    /\ plotRow.v \in 0..(PLOT_HEIGHT - 1)
    /\ plotI \in 0..PlotWidth
    /\ ppc \in {"print", "done"} =>
          \A c \in 1..PlotWidth :
              IF PlotFiniteSample(plotY[c])
              THEN grid[PlotRowOf(plotY[c].v, ymin.v, ymax.v).v][c] = "o"
              ELSE \A r \in DOMAIN grid : grid[r][c] # "o"

\* C30 for the plots that are printed: no marker for a sample that is not
\* finite, and every marker kept by the zero line.
C30_PrintedPlot ==
    ppc \in {"print", "done"} =>
        /\ plotRow.k = "fin"
        /\ plotRow.v \in 0..(PLOT_HEIGHT - 1)
        /\ \A c \in 1..PlotWidth :
              IF PlotFiniteSample(plotY[c])
              THEN grid[PlotRowOf(plotY[c].v, ymin.v, ymax.v).v][c] = "o"
              ELSE \A r \in DOMAIN grid : grid[r][c] # "o"

====
